---- MODULE Spec2Model ----
(***************************************************************************)
(* generate_business_plans.py: load business records from businesses.csv,  *)
(* call the `ollama` command once per record in a pool of worker           *)
(* processes, write each plan to Generated_Business_Plans/<name>_<ts>.txt, *)
(* append failures to error_log.txt and print a summary.                   *)
(*                                                                         *)
(* Python strings are modelled as sequences of one-character strings, so   *)
(* that `in`, strip(), replace(), lower() and strftime() are computed as   *)
(* the code computes them.                                                 *)
(***************************************************************************)
EXTENDS Integers, Sequences, FiniteSets, TLC

----------------------------------------------------------------------------
(* Bounds of the model *)

\* number of data rows (after the header) in businesses.csv
MaxRows == 2
\* the clock readings of a run lie between 0 and this many ticks
MaxTime == 2
\* clock ticks per second of wall-clock time (sub-second resolution)
TicksPerSecond == 2
\* multiprocessing.cpu_count() is between 1 and this
MaxWorkers == 2

----------------------------------------------------------------------------
(* String literals of the program *)

S_Error == <<"E", "r", "r", "o", "r">>
S_saved == <<"s", "a", "v", "e", "d">>
S_ModelFailed == <<"E", "r", "r", "o", "r", ":", " ", "A", "I", " ", "m", "o", "d", "e", "l", " ", "f", "a", "i", "l", "e", "d", " ", "t", "o", " ", "g", "e", "n", "e", "r", "a", "t", "e", " ", "b", "u", "s", "i", "n", "e", "s", "s", " ", "p", "l", "a", "n", ".">>
S_ErrorColon == <<"E", "r", "r", "o", "r", ":", " ">>
S_PlanSaved == <<"B", "u", "s", "i", "n", "e", "s", "s", " ", "p", "l", "a", "n", " ", "s", "a", "v", "e", "d", ":", " ">>
S_ErrorSaving == <<"E", "r", "r", "o", "r", " ", "s", "a", "v", "i", "n", "g", " ", "f", "i", "l", "e", ":", " ">>
S_ErrorProcessing == <<"E", "r", "r", "o", "r", " ", "p", "r", "o", "c", "e", "s", "s", "i", "n", "g", " ", "'">>
S_QuoteColon == <<"'", ":", " ">>
S_Txt == <<".", "t", "x", "t">>
\* output_directory, relative to the script's directory
output_directory == <<"G", "e", "n", "e", "r", "a", "t", "e", "d", "_", "B", "u", "s", "i", "n", "e", "s", "s", "_", "P", "l", "a", "n", "s">>

\* str(e) of the OSError that subprocess.run raises when the executable cannot be started
S_ExecError == <<"[", "E", "r", "r", "n", "o", " ", "2", "]", " ", "N", "o", " ", "s", "u", "c", "h", " ", "f", "i", "l", "e", " ", "o", "r", " ", "d", "i", "r", "e", "c", "t", "o", "r", "y", ":", " ", "'", "o", "l", "l", "a", "m", "a", "'">>
\* str(e) of the OSError that open() raises for a path in a missing directory, up to the path
S_NoSuchFile == <<"[", "E", "r", "r", "n", "o", " ", "2", "]", " ", "N", "o", " ", "s", "u", "c", "h", " ", "f", "i", "l", "e", " ", "o", "r", " ", "d", "i", "r", "e", "c", "t", "o", "r", "y", ":", " ", "'">>

UpperCase == <<"A", "B", "C", "D", "E", "F", "G", "H", "I", "J", "K", "L", "M", "N", "O", "P", "Q", "R", "S", "T", "U", "V", "W", "X", "Y", "Z">>
LowerCase == <<"a", "b", "c", "d", "e", "f", "g", "h", "i", "j", "k", "l", "m", "n", "o", "p", "q", "r", "s", "t", "u", "v", "w", "x", "y", "z">>
Digits == <<"0", "1", "2", "3", "4", "5", "6", "7", "8", "9">>

----------------------------------------------------------------------------
(* Python string operations *)

\* sub in s
Contains(sub, s) ==
    \E k \in 0..(Len(s) - Len(sub)) : SubSeq(s, k + 1, k + Len(sub)) = sub

\* characters that str.strip() removes
IsSpace(c) == c \in {" ", "\t", "\n", "\r"}

\* s.strip()
Strip(s) ==
    LET keep == {k \in 1..Len(s) : ~IsSpace(s[k])}
    IN  IF keep = {} THEN <<>>
        ELSE SubSeq(s, CHOOSE k \in keep : \A m \in keep : k <= m,
                       CHOOSE k \in keep : \A m \in keep : k >= m)

\* s.replace(" ", "_")
ReplaceSpaces(s) == [k \in 1..Len(s) |-> IF s[k] = " " THEN "_" ELSE s[k]]

LowerChar(c) ==
    IF \E k \in 1..Len(UpperCase) : UpperCase[k] = c
    THEN LowerCase[CHOOSE k \in 1..Len(UpperCase) : UpperCase[k] = c]
    ELSE c

\* s.lower()
Lower(s) == [k \in 1..Len(s) |-> LowerChar(s[k])]

\* a number below 100 as two decimal digits (%H, %M, %S)
TwoDigits(n) == <<Digits[(n \div 10) + 1], Digits[(n % 10) + 1]>>

\* datetime.now().strftime('%Y-%m-%d_%H-%M-%S'); the clock t counts ticks
\* since 2026-11-05 00:00:00 local time and stays within that day
Strftime(t) ==
    LET secs == t \div TicksPerSecond
    IN  <<"2", "0", "2", "6", "-", "1", "1", "-", "0", "5", "_">>
        \o TwoDigits((secs \div 3600) % 24) \o <<"-">>
        \o TwoDigits((secs \div 60) % 60) \o <<"-">>
        \o TwoDigits(secs % 60)

----------------------------------------------------------------------------
(* The input file, as the rows csv.reader yields *)

F_name == <<"n", "a", "m", "e">>
F_p == <<"p">>
F_s == <<"s">>
F_l == <<"l">>
HeaderRow == <<F_name, F_p, F_s, F_l>>

N_Acme == <<"A", "c", "m", "e", " ", "C", "o">>
N_Saved == <<"s", "a", "v", "e", "d", "/", "c", "o">>
N_Multi == <<"x", "\n", "y">>

\* data rows of the runs that are followed through the worker pool
PipelineRows ==
    { <<N_Acme, F_p, F_s, F_l>>,
      <<N_Saved, F_p, F_s, F_l>>,
      <<N_Multi, F_p, F_s, F_l>> }

\* data rows for the loader: padded fields, short rows, a blank line, extra fields
LoaderRows ==
    { <<<<" ">> \o N_Acme \o <<" ">>, <<"\t">> \o F_p, F_s \o <<"\n">>, F_l>>,
      <<N_Saved, <<" ", " ">>, F_s, <<"l", " ", "p">>, <<"e", "x", "t", "r", "a">>>>,
      <<N_Acme, F_p, F_s>>,
      <<>>,
      <<N_Multi, F_p, F_s, F_l>> }

RECURSIVE SeqsUpTo(_, _)
\* all sequences over S of length at most n
SeqsUpTo(S, n) ==
    IF n = 0 THEN {<<>>}
    ELSE LET shorter == SeqsUpTo(S, n - 1)
         IN  shorter \cup {Append(q, x) : q \in {r \in shorter : Len(r) = n - 1}, x \in S}

\* businesses.csv: absent, or present with the rows the reader yields
AbsentFile == [exists |-> FALSE, rows |-> <<>>]
FileOf(rows) == [exists |-> TRUE, rows |-> rows]
\* a present file is empty (no header either) or a header followed by data rows
FilesOver(rowset) ==
    {AbsentFile, FileOf(<<>>)}
        \cup {FileOf(<<HeaderRow>> \o data) : data \in SeqsUpTo(rowset, MaxRows)}

----------------------------------------------------------------------------
(* Outcomes of subprocess.run(["ollama", "run", model, prompt], ...) *)

T_PlanText == <<"P", "L", "A", "N", " ", "T", "E", "X", "T">>
T_PlanNewline == <<"P", "L", "A", "N", "\n">>
T_ErrorBudget == <<"E", "r", "r", "o", "r", " ", "b", "u", "d", "g", "e", "t">>

NoOutcome == [raised |-> FALSE, returncode |-> 0, stdout |-> <<>>, exc |-> <<>>]
ToolOutcomes ==
    {[raised |-> FALSE, returncode |-> 0, stdout |-> t, exc |-> <<>>] :
        t \in {T_PlanText, T_PlanNewline, T_ErrorBudget}}
    \cup {[raised |-> FALSE, returncode |-> 1, stdout |-> <<>>, exc |-> <<>>],
          [raised |-> TRUE, returncode |-> 0, stdout |-> <<>>, exc |-> S_ExecError]}

\* the tool call failed: it raised, or exited with a non-zero code
ToolFailed(out) == out.raised \/ out.returncode # 0

----------------------------------------------------------------------------
(* Functions of the program *)

\* the row test with > in place of >=
KeepRow_MoreThanFour(row) == Len(row) > 4

\* load_businesses: the row test
KeepRow(row) == Len(row) >= 4

\* load_businesses: the record built from a kept row
RecordOf(row) ==
    [name |-> Strip(row[1]), problem |-> Strip(row[2]),
     solution |-> Strip(row[3]), landing_page |-> Strip(row[4])]

RECURSIVE LoadRows(_)
\* load_businesses: the loop over the rows after the header
LoadRows(rows) ==
    IF rows = <<>> THEN <<>>
    ELSE (IF KeepRow(Head(rows)) THEN <<RecordOf(Head(rows))>> ELSE <<>>)
         \o LoadRows(Tail(rows))

generate_filename(name, t) ==
    Lower(ReplaceSpaces(name)) \o <<"_">> \o Strftime(t)

\* generate_business_plan without the test of the return code
generate_business_plan_IgnoresExitCode(out) ==
    IF out.raised THEN S_ErrorColon \o out.exc
    ELSE Strip(out.stdout)

\* generate_business_plan: the value returned for an outcome of the tool call
generate_business_plan(out) ==
    IF out.raised THEN S_ErrorColon \o out.exc
    ELSE IF out.returncode = 0 THEN Strip(out.stdout)
    ELSE S_ModelFailed

\* process_business: the test that sends a plan to the except branch
IsErrorPlan(p) == Contains(S_Error, p)

\* save_business_plan: file_path
FilePath(filename) == output_directory \o <<"/">> \o filename \o S_Txt

\* open(file_path, 'w') raises when the path names a directory that does not
\* exist; only the output directory itself was created
OpenFails(path) ==
    Contains(<<"/">>, SubSeq(path, Len(output_directory) + 2, Len(path)))

\* save_business_plan: the string returned
SaveResult(path) ==
    IF OpenFails(path) THEN S_ErrorSaving \o S_NoSuchFile \o path \o <<"'">>
    ELSE S_PlanSaved \o path

\* process_business: error_message
ErrorMessage(name, e) ==
    S_ErrorProcessing \o name \o S_QuoteColon \o e \o <<"\n">>

\* a write of data at offset off of a file's content
WriteAt(content, off, data) ==
    SubSeq(content, 1, off) \o data
        \o SubSeq(content, off + Len(data) + 1, Len(content))

\* the summary with the failures counted by the word "Error" in the results
SummaryCounts_CountsErrors(bs, res) ==
    [printed |-> TRUE, total |-> Len(bs),
     success |-> Cardinality({k \in 1..Len(res) : Contains(S_saved, res[k])}),
     failure |-> Cardinality({k \in 1..Len(res) : Contains(S_Error, res[k])})]

\* main: the counts of the summary report
SummaryCounts(bs, res) ==
    LET success_count ==
            Cardinality({k \in 1..Len(res) : Contains(S_saved, res[k])})
    IN  [printed |-> TRUE, total |-> Len(bs), success |-> success_count,
         failure |-> Len(bs) - success_count]

\* main going on as soon as the first result is there
AllCollected_FirstResult(t) == \E k \in 1..Len(t) : t[k] = "finished"

\* main: list(pool.imap(...)) has collected every result
AllCollected(t) == \A k \in 1..Len(t) : t[k] = "finished"

\* the pool hands out tasks in input order
IsNextTask(i, t) == t[i] = "queued" /\ \A j \in 1..(i - 1) : t[j] # "queued"

Running(t) == {k \in 1..Len(t) : t[k] \notin {"queued", "finished"}}

----------------------------------------------------------------------------
(* State *)

VARIABLES
    ollamaInstalled,  \* `which ollama` succeeds
    cpuCount,         \* multiprocessing.cpu_count()
    csv,              \* businesses.csv
    pc,               \* main: "check", "load", "pool"; ended: "done", "exit", "crash"
    exitCode,         \* exit status of the process, -1 while it runs
    summary,          \* the printed summary report
    businesses,       \* main: the loaded records
    tpc,              \* per record: "queued", "generate", "save", "log_open", "log_write", "finished"
    attempts,         \* per record: number of times the pool started process_business
    toolOut,          \* per record: outcome of the tool call
    plan,             \* per record: process_business's plan
    results,          \* per record: the string process_business returned
    files,            \* plan files in the output directory: path -> content
    savedPath,        \* per record: the path save_business_plan wrote, <<>> if none
    created,          \* per record: the write created a file that did not exist
    errorLog,         \* content of error_log.txt
    logOffset,        \* per record: end of error_log.txt seen when it was opened
    appends,          \* per record: the data written to error_log.txt
    now               \* the latest reading of the clock, in ticks

vars == <<ollamaInstalled, cpuCount, csv, pc, exitCode, summary, businesses, tpc, attempts,
          toolOut, plan, results, files, savedPath, created, errorLog, logOffset,
          appends, now>>

envVars == <<ollamaInstalled, cpuCount, csv>>
taskVars == <<tpc, attempts, toolOut, plan, results, savedPath, created, logOffset, appends>>
diskVars == <<files, errorLog>>

NoSummary == [printed |-> FALSE, total |-> 0, success |-> 0, failure |-> 0]

InitWith(fileset) ==
    /\ ollamaInstalled \in BOOLEAN
    /\ cpuCount \in 1..MaxWorkers
    /\ csv \in fileset
    /\ pc = "check"
    /\ exitCode = -1
    /\ summary = NoSummary
    /\ businesses = <<>>
    /\ tpc = <<>>
    /\ attempts = <<>>
    /\ toolOut = <<>>
    /\ plan = <<>>
    /\ results = <<>>
    /\ files = <<>>
    /\ savedPath = <<>>
    /\ created = <<>>
    /\ errorLog = <<>>
    /\ logOffset = <<>>
    /\ appends = <<>>
    /\ now = 0

Init == InitWith(FilesOver(PipelineRows))

InitLoad == InitWith(FilesOver(LoaderRows))

----------------------------------------------------------------------------
(* main, up to the pool *)

\* check_dependencies (tqdm was imported when the module loaded)
CheckDependencies ==
    /\ pc = "check"
    /\ LET missing == IF ollamaInstalled THEN <<>> ELSE <<"ollama">>
       IN  IF missing # <<>>
           THEN pc' = "exit" /\ exitCode' = 1
           ELSE pc' = "load" /\ exitCode' = exitCode
    /\ UNCHANGED <<envVars, summary, businesses, taskVars, diskVars, now>>

\* load_businesses, and main's start of the pool
LoadBusinesses ==
    /\ pc = "load"
    /\ IF ~csv.exists
       THEN \* FileNotFoundError: message, exit(1)
            /\ pc' = "exit" /\ exitCode' = 1
            /\ UNCHANGED <<businesses, taskVars>>
       ELSE IF csv.rows = <<>>
       THEN \* next(reader) raises StopIteration, which nothing catches
            /\ pc' = "crash" /\ exitCode' = 1
            /\ UNCHANGED <<businesses, taskVars>>
       ELSE LET bs == LoadRows(Tail(csv.rows))
                n == Len(bs)
            IN  /\ businesses' = bs
                /\ pc' = "pool" /\ exitCode' = exitCode
                /\ tpc' = [k \in 1..n |-> "queued"]
                /\ attempts' = [k \in 1..n |-> 0]
                /\ toolOut' = [k \in 1..n |-> NoOutcome]
                /\ plan' = [k \in 1..n |-> <<>>]
                /\ results' = [k \in 1..n |-> <<>>]
                /\ savedPath' = [k \in 1..n |-> <<>>]
                /\ created' = [k \in 1..n |-> FALSE]
                /\ logOffset' = [k \in 1..n |-> 0]
                /\ appends' = [k \in 1..n |-> <<>>]
    /\ UNCHANGED <<envVars, summary, diskVars, now>>

LoadNext == CheckDependencies \/ LoadBusinesses

LoadSpec == InitLoad /\ [][LoadNext]_vars

----------------------------------------------------------------------------
(* The worker pool: process_business on each record *)

\* pool.imap hands the next record to an idle worker, which enters process_business
StartTask(i) ==
    /\ pc = "pool"
    /\ IsNextTask(i, tpc)
    /\ Cardinality(Running(tpc)) < cpuCount
    /\ tpc' = [tpc EXCEPT ![i] = "generate"]
    /\ attempts' = [attempts EXCEPT ![i] = @ + 1]
    /\ UNCHANGED <<envVars, pc, exitCode, summary, businesses, toolOut, plan,
                   results, savedPath, created, logOffset, appends, diskVars, now>>

\* process_business: plan = generate_business_plan(business), and the test of the plan
Generate(i, out) ==
    /\ pc = "pool"
    /\ tpc[i] = "generate"
    /\ toolOut' = [toolOut EXCEPT ![i] = out]
    /\ LET p == generate_business_plan(out)
       IN  /\ plan' = [plan EXCEPT ![i] = p]
           /\ tpc' = [tpc EXCEPT ![i] = IF IsErrorPlan(p) THEN "log_open" ELSE "save"]
    /\ UNCHANGED <<envVars, pc, exitCode, summary, businesses, attempts, results,
                   savedPath, created, logOffset, appends, diskVars, now>>

\* process_business: return save_business_plan(business, plan); datetime.now()
\* reads t, which is not before the reading of any earlier call
Save(i, t) ==
    /\ pc = "pool"
    /\ tpc[i] = "save"
    /\ t >= now
    /\ now' = t
    /\ LET file_path == FilePath(generate_filename(businesses[i].name, t))
       IN  /\ results' = [results EXCEPT ![i] = SaveResult(file_path)]
           /\ IF OpenFails(file_path)
              THEN UNCHANGED <<files, savedPath, created>>
              ELSE /\ files' = [f \in DOMAIN files \cup {file_path} |->
                                   IF f = file_path THEN plan[i] ELSE files[f]]
                   /\ savedPath' = [savedPath EXCEPT ![i] = file_path]
                   /\ created' = [created EXCEPT ![i] = file_path \notin DOMAIN files]
    /\ tpc' = [tpc EXCEPT ![i] = "finished"]
    /\ UNCHANGED <<envVars, pc, exitCode, summary, businesses, attempts, toolOut,
                   plan, logOffset, appends, errorLog>>

\* process_business, except branch: error_log.txt is opened for appending
LogOpen(i) ==
    /\ pc = "pool"
    /\ tpc[i] = "log_open"
    /\ logOffset' = [logOffset EXCEPT ![i] = Len(errorLog)]
    /\ tpc' = [tpc EXCEPT ![i] = "log_write"]
    /\ UNCHANGED <<envVars, pc, exitCode, summary, businesses, attempts, toolOut,
                   plan, results, savedPath, created, appends, diskVars, now>>

\* process_business, except branch: the message is written when the file is
\* closed, and returned.  The workers take no lock: the data lands at the end
\* of the file as it is now where the filesystem appends atomically, and at
\* the end seen at the open where it does not.
LogWrite(i) ==
    /\ pc = "pool"
    /\ tpc[i] = "log_write"
    /\ LET error_message == ErrorMessage(businesses[i].name, plan[i])
       IN  /\ \E off \in {logOffset[i], Len(errorLog)} :
                  errorLog' = WriteAt(errorLog, off, error_message)
           /\ appends' = [appends EXCEPT ![i] = Append(@, error_message)]
           /\ results' = [results EXCEPT ![i] = error_message]
    /\ tpc' = [tpc EXCEPT ![i] = "finished"]
    /\ UNCHANGED <<envVars, pc, exitCode, summary, businesses, attempts, toolOut,
                   plan, savedPath, created, logOffset, files, now>>

\* main: the results are collected, the summary is printed, the process ends
Summary ==
    /\ pc = "pool"
    /\ AllCollected(tpc)
    /\ summary' = SummaryCounts(businesses, results)
    /\ pc' = "done"
    /\ exitCode' = 0
    /\ UNCHANGED <<envVars, businesses, taskVars, diskVars, now>>

Next ==
    \/ CheckDependencies
    \/ LoadBusinesses
    \/ \E i \in DOMAIN tpc : StartTask(i)
    \/ \E i \in DOMAIN tpc : \E out \in ToolOutcomes : Generate(i, out)
    \/ \E i \in DOMAIN tpc : \E t \in 0..MaxTime : Save(i, t)
    \/ \E i \in DOMAIN tpc : LogOpen(i)
    \/ \E i \in DOMAIN tpc : LogWrite(i)
    \/ Summary

Spec == Init /\ [][Next]_vars

----------------------------------------------------------------------------
(* Properties *)

Records == DOMAIN tpc
Finished(i) == tpc[i] = "finished"
Ended == pc \in {"done", "exit", "crash"}

\* m is one line: it ends with its only line break
IsOneLine(m) ==
    /\ Len(m) >= 1
    /\ m[Len(m)] = "\n"
    /\ \A k \in 1..(Len(m) - 1) : m[k] # "\n"

\* save_business_plan raised while writing record i's plan
WriteFailed(i) == Finished(i) /\ ~IsErrorPlan(plan[i]) /\ savedPath[i] = <<>>

\* C1: a record whose tool call returned exit code 0 gets exactly one new
\* file, named lowercase(name with "_" for " ") + "_" + timestamp + ".txt",
\* whose content equals the tool's captured output (compared without the
\* surrounding whitespace, which generate_business_plan strips).
C1_SuccessWritesOneFile ==
    \A i \in Records :
        (Finished(i) /\ ~ToolFailed(toolOut[i])) =>
            /\ created[i]
            /\ \E t \in 0..MaxTime :
                   savedPath[i] = output_directory \o <<"/">>
                       \o Lower(ReplaceSpaces(businesses[i].name)) \o <<"_">>
                       \o Strftime(t) \o S_Txt
            /\ savedPath[i] \in DOMAIN files
            /\ files[savedPath[i]] = Strip(toolOut[i].stdout)

\* C2 as stated: a record whose tool call failed gets no output file, and
\* exactly one line is appended to error_log.txt.
C2_FailureAppendsOneLine ==
    \A i \in Records :
        (Finished(i) /\ ToolFailed(toolOut[i])) =>
            /\ savedPath[i] = <<>>
            /\ Len(appends[i]) = 1
            /\ IsOneLine(appends[i][1])

\* C2 amended: a record whose tool call failed gets no output file, and
\* exactly one message ending in a line break is appended to error_log.txt;
\* the message is a single line when the record's name has no line break.
C2_FailureAppendsOneMessage ==
    \A i \in Records :
        (Finished(i) /\ ToolFailed(toolOut[i])) =>
            /\ savedPath[i] = <<>>
            /\ Len(appends[i]) = 1
            /\ LET m == appends[i][1]
               IN  /\ Len(m) >= 1 /\ m[Len(m)] = "\n"
                   /\ Contains(businesses[i].name, m)
                   /\ ~Contains(<<"\n">>, businesses[i].name) => IsOneLine(m)

C2_Witness ==
    \E i \in Records :
        /\ Finished(i) /\ ToolFailed(toolOut[i])
        /\ Contains(<<"\n">>, businesses[i].name)
        /\ \E j \in Records : Finished(j) /\ toolOut[j].raised
                                /\ ~Contains(<<"\n">>, businesses[j].name)

\* C3: every per-record failure (tool error or file-write error) yields a
\* string result, is appended to the error log, and is counted as a failure
\* in the summary; the run goes on to the summary.
C3_FailuresLoggedAndCounted ==
    \A i \in Records :
        (Finished(i) /\ (ToolFailed(toolOut[i]) \/ WriteFailed(i))) =>
            /\ results[i] # <<>>
            /\ Len(appends[i]) = 1
            /\ ~Contains(S_saved, results[i])
            /\ pc \in {"pool", "done"}

\* C4: a run that has ended exited early when the tool or the input file is
\* absent, and otherwise printed the summary and exited with code 0.
C4_EndsWithSummaryUnlessAbsent ==
    Ended =>
        IF ~ollamaInstalled \/ ~csv.exists
        THEN pc = "exit" /\ ~summary.printed /\ exitCode # 0
        ELSE pc = "done" /\ summary.printed /\ exitCode = 0

C6_SavedPathsDistinct ==
    \A i, j \in Records :
        (i # j /\ savedPath[i] # <<>> /\ savedPath[j] # <<>>) =>
            savedPath[i] # savedPath[j]

\* t is s without its surrounding whitespace
IsTrimOf(t, s) ==
    /\ t = <<>> \/ (~IsSpace(t[1]) /\ ~IsSpace(t[Len(t)]))
    /\ \E a \in 0..Len(s) :
           /\ a + Len(t) <= Len(s)
           /\ SubSeq(s, a + 1, a + Len(t)) = t
           /\ \A k \in (1..a) \cup ((a + Len(t) + 1)..Len(s)) : IsSpace(s[k])

\* C7: load_businesses returns one record per data row with at least 4
\* fields, in file order, holding the row's first four fields trimmed; rows
\* with fewer fields give no record and leave the other records unchanged.
C7_LoaderKeepsWellFormedRows ==
    pc = "pool" =>
        LET data == Tail(csv.rows)
            good == {k \in 1..Len(data) : Len(data[k]) >= 4}
            pos(k) == Cardinality({m \in good : m <= k})
        IN  /\ Len(businesses) = Cardinality(good)
            /\ \A k \in good :
                   /\ IsTrimOf(businesses[pos(k)].name, data[k][1])
                   /\ IsTrimOf(businesses[pos(k)].problem, data[k][2])
                   /\ IsTrimOf(businesses[pos(k)].solution, data[k][3])
                   /\ IsTrimOf(businesses[pos(k)].landing_page, data[k][4])

\* a short row between two kept rows, one of them with padded fields
C7_Witness ==
    /\ pc = "pool"
    /\ Len(csv.rows) = 3
    /\ Len(csv.rows[2]) = 4 /\ csv.rows[2][1] # Strip(csv.rows[2][1])
    /\ Len(csv.rows[3]) = 3
    /\ Len(businesses) = 1
    /\ businesses[1].name = N_Acme

\* C8: the success count and the failure count of the summary sum to the
\* number of records.
C8_CountsSumToTotal ==
    pc = "done" =>
        /\ summary.printed
        /\ summary.total = Len(businesses)
        /\ summary.success >= 0 /\ summary.failure >= 0
        /\ summary.success + summary.failure = Len(businesses)

\* a run with a saved plan and a failed record whose message contains "saved"
C8_Witness ==
    /\ pc = "done"
    /\ \E i, j \in Records :
           /\ savedPath[i] # <<>>
           /\ ToolFailed(toolOut[j])
           /\ Contains(S_saved, results[j]) /\ Contains(S_Error, results[j])

\* C9: a record's result contains "saved" exactly when save_business_plan
\* wrote its plan, so the success count is the number of records written.
C9_SavedIffWritten ==
    pc = "done" =>
        /\ \A i \in Records : Contains(S_saved, results[i]) <=> savedPath[i] # <<>>
        /\ summary.success = Cardinality({i \in Records : savedPath[i] # <<>>})

RECURSIVE TotalLen(_)
\* the total length of the messages in a sequence of messages
TotalLen(ms) == IF ms = <<>> THEN 0 ELSE Len(Head(ms)) + TotalLen(Tail(ms))

RECURSIVE Flatten(_)
\* the messages of all records, one sequence
Flatten(ss) == IF ss = <<>> THEN <<>> ELSE Head(ss) \o Flatten(Tail(ss))

\* m starts at the beginning of a line of log and is there in full
OccursAsLine(m, log) ==
    \E k \in 0..(Len(log) - Len(m)) :
        /\ SubSeq(log, k + 1, k + Len(m)) = m
        /\ k = 0 \/ log[k] = "\n"

\* C10: after the run, every message a worker wrote is in error_log.txt in
\* full and contiguous, and none is lost.
C10_LogKeepsEveryMessage ==
    pc = "done" =>
        /\ \A i \in Records : \A k \in 1..Len(appends[i]) :
               OccursAsLine(appends[i][k], errorLog)
        /\ Len(errorLog) = TotalLen(Flatten(appends))

====
